---- MODULE Spec2Model ----
(***************************************************************************)
(* Model of the fileTree jQuery plugin (src/unnamed/part_000): the indexed *)
(* file data tree, and the state holder that persists it in localStorage.  *)
(*                                                                         *)
(* JavaScript objects live in a heap: heap[i] is the object with identity  *)
(* i, a node's children array holds identities.  A JSON text is modelled   *)
(* by the value it denotes (a nested record without identities), so that   *)
(* JSON.stringify and JSON.parse are conversions between the two.          *)
(***************************************************************************)
EXTENDS Integers, Sequences, FiniteSets, TLC

\* ---------------------------------------------------------------- bounds
\* Largest number of node objects alive in one page session.
MaxHeap == 4

\* ------------------------------------------------------- JavaScript values
\* null / undefined (the code only tests `node == null`, which holds of both)
Null == 0
\* The value every plain object inherits under the key "constructor":
\* the function Object, which is not null and has no fileData property.
ObjectFunction == -1
\* Keys that `{}` inherits from Object.prototype, among the paths used here.
ObjectPrototypeKeys == {"constructor"}

\* ------------------------------------------------------------- file data
RootFileData == [path |-> "", name |-> "", type |-> "directory", expandable |-> TRUE]
FdA  == [path |-> "/a",   name |-> "a", type |-> "directory",       expandable |-> TRUE]
FdAB == [path |-> "/a/b", name |-> "b", type |-> "text/plain",      expandable |-> FALSE]
FdC  == [path |-> "/c",   name |-> "c", type |-> "application/zip", expandable |-> TRUE]

\* Paths carried by file data, and the paths callers look up.
FilePaths == {"", "/a", "/a/b", "/c"}
CallPaths == FilePaths \cup {"/zz"} \cup ObjectPrototypeKeys

\* --------------------------------------------------- node values (JSON)
EmptyMarker == [empty |-> TRUE]
Dir(fd, kids) == [fileData |-> fd, children |-> kids]
Leaf(fd) == [fileData |-> fd]
\* The JSON text "{}": an object without any property.
EmptyObject == [x \in {} |-> TRUE]

\* function isEmptyNode(node)
isEmptyNode(node) == "empty" \in DOMAIN node /\ node.empty

\* Children sequences handed to set / addNodes.
InputNodes ==
    { <<>>,
      <<EmptyMarker>>,
      <<Dir(FdA, <<>>)>>,
      <<Dir(FdA, <<Leaf(FdAB)>>)>>,
      <<Dir(FdC, <<>>)>>,
      <<Dir(FdA, <<>>), Dir(FdC, <<>>)>> }

RECURSIVE CountNodes(_)
CountNodesSeq(vs) ==
    LET RECURSIVE Sum(_)
        Sum(i) == IF i = 0 THEN 0 ELSE CountNodes(vs[i]) + Sum(i - 1)
    IN Sum(Len(vs))
CountNodes(v) ==
    1 + (IF "children" \in DOMAIN v THEN CountNodesSeq(v.children) ELSE 0)

\* ------------------------------------------------------------------ heap
\* Object creation: the node value v becomes objects of the heap h, children
\* first.  The result is the new heap and the identity of v's object.
RECURSIVE Alloc(_, _)
RECURSIVE AllocSeq(_, _)
AllocSeq(h, vs) ==
    IF vs = <<>> THEN [heap |-> h, ids |-> <<>>]
    ELSE LET first == Alloc(h, Head(vs))
             rest == AllocSeq(first.heap, Tail(vs))
         IN [heap |-> rest.heap, ids |-> <<first.id>> \o rest.ids]
Alloc(h, v) ==
    IF "children" \in DOMAIN v
    THEN LET kids == AllocSeq(h, v.children)
         IN [heap |-> Append(kids.heap, [v EXCEPT !.children = kids.ids]),
             id |-> Len(kids.heap) + 1]
    ELSE [heap |-> Append(h, v), id |-> Len(h) + 1]

\* The value of the object id: what JSON.stringify writes for it.
RECURSIVE ToValue(_, _)
ToValue(h, id) ==
    IF "children" \in DOMAIN h[id]
    THEN [h[id] EXCEPT !.children =
              [i \in DOMAIN h[id].children |-> ToValue(h, h[id].children[i])]]
    ELSE h[id]

\* ------------------------------------------------------ IndexedFileDataTree
\* pathToNodeIndex is a plain object: its own properties are the function
\* idx (path -> identity); reading any other key falls through to
\* Object.prototype.
ReadIndex(idx, path) ==
    IF path \in DOMAIN idx THEN idx[path]
    ELSE IF path \in ObjectPrototypeKeys THEN ObjectFunction
    ELSE Null

\* function index(node): TRUE when the traversal dereferences a missing
\* property (node.fileData of an object without one, node.children of an
\* expandable node without one), which raises a TypeError.
RECURSIVE indexThrows(_, _)
indexThrows(h, id) ==
    LET node == h[id] IN
    /\ ~isEmptyNode(node)
    /\ \/ "fileData" \notin DOMAIN node
       \/ /\ node.fileData.expandable
          /\ \/ "children" \notin DOMAIN node
             \/ \E i \in DOMAIN node.children : indexThrows(h, node.children[i])

\* function index(node), for a traversal that does not throw.
RECURSIVE index(_, _, _)
RECURSIVE indexAll(_, _, _)
indexAll(h, idx, ids) ==
    IF ids = <<>> THEN idx
    ELSE indexAll(h, index(h, idx, Head(ids)), Tail(ids))
index(h, idx, id) ==
    LET node == h[id] IN
    IF isEmptyNode(node) THEN idx
    ELSE LET put == (node.fileData.path :> id) @@ idx
         IN IF node.fileData.expandable
            THEN indexAll(h, put, node.children)
            ELSE put

\* `if (isEmptyNode)` tests the function itself, never calls it: a function
\* object is truthy whatever the node.
isEmptyNodeFunctionIsTruthy(node) == TRUE

\* function removeFromIndex(node)
RECURSIVE removeFromIndex(_, _, _)
RECURSIVE removeAllFromIndex(_, _, _)
removeAllFromIndex(h, idx, ids) ==
    IF ids = <<>> THEN idx
    ELSE removeAllFromIndex(h, removeFromIndex(h, idx, Head(ids)), Tail(ids))
removeFromIndex(h, idx, id) ==
    LET node == h[id] IN
    IF isEmptyNodeFunctionIsTruthy(node) THEN idx
    ELSE LET del == [p \in (DOMAIN idx) \ {node.fileData.path} |-> idx[p]]
         IN IF node.fileData.expandable
            THEN removeAllFromIndex(h, del, node.children)
            ELSE del

\* this.get(path): the value returned.
get(idx, path) ==
    LET node == ReadIndex(idx, path) IN
    IF node = Null THEN Null ELSE node

\* this.get(path) returned an object that has a fileData property.
IsNode(node) == node \notin {Null, ObjectFunction}

\* this.set(parentPath, nodes) and this.clear(parentPath) read
\* node.fileData.expandable first: a TypeError when get returned null or an
\* object without fileData.
mutationThrows(idx, parentPath) == ~IsNode(get(idx, parentPath))

\* The index after `if (node.fileData.expandable)
\*                      node.children.forEach(removeFromIndex)`.
dropChildren(h, idx, node) ==
    IF h[node].fileData.expandable
    THEN removeAllFromIndex(h, idx, h[node].children)
    ELSE idx

\* this.set(parentPath, nodes), nodes being the identities ids of the heap h.
\* The result is the heap, the index and the returned node.
set(h, idx, parentPath, ids) ==
    LET node == get(idx, parentPath)
        dropped == dropChildren(h, idx, node)
        h2 == [h EXCEPT ![node] = [fileData |-> h[node].fileData, children |-> ids]]
    IN [heap |-> h2, index |-> indexAll(h2, dropped, ids), ret |-> node]

\* clear as a slip would write it: every node of the page loses its children.
clear_everyNode(h, idx, parentPath) ==
    [heap |-> [i \in DOMAIN h |->
                  IF "children" \in DOMAIN h[i] THEN [h[i] EXCEPT !.children = <<>>]
                  ELSE h[i]],
     index |-> idx]

\* this.clear(parentPath)
clear(h, idx, parentPath) ==
    LET node == get(idx, parentPath)
        dropped == dropChildren(h, idx, node)
    IN [heap |-> [h EXCEPT ![node] = [fileData |-> h[node].fileData, children |-> <<>>]],
        index |-> dropped]

\* Inside add, `get(parentPath)` names a variable; the tree defines only the
\* property this.get, and no variable `get` is in scope of the plugin.
bareGetIsDefined == FALSE

\* this.add(parentPath, node) once `get` has resolved, node being the
\* identity id of the heap h: index(node), then parentNode.children.push.
add(h, idx, parentPath, id) ==
    LET parentNode == get(idx, parentPath)
    IN [heap |-> [h EXCEPT ![parentNode].children = Append(@, id)],
        index |-> index(h, idx, id)]

\* ------------------------------------------------------------ localStorage
\* What localStorage holds under a key: nothing (getItem returns null), a
\* JSON text (modelled by the value it denotes) or a text that is not JSON.
NoItem == [null |-> TRUE]
JsonText(v) == [json |-> v]
NotJson == [raw |-> "not json"]

\* JSON.stringify(node)
stringify(h, id) == JsonText(ToValue(h, id))
\* JSON.parse(text) raises a SyntaxError
parseThrows(text) == "json" \notin DOMAIN text

\* The tree identifier of the store, and `storageKey`.
TreeIds == {"A"}
\* The storage key as a slip would write it: one key for every tree.
storageKey_sameForEveryTree(id) == <<"ru.kozobrodov.fileTree", "">>

storageKey(id) == <<"ru.kozobrodov.fileTree$", id>>
treeId == "A"

\* What the key may hold before the page is opened for the first time.
InitialItems ==
    { NoItem,
      NotJson,
      JsonText(EmptyObject),
      JsonText(Dir(RootFileData, <<>>)),
      JsonText(Dir(RootFileData, <<EmptyMarker>>)),
      JsonText(Dir(RootFileData, <<Dir(FdA, <<Leaf(FdAB)>>)>>)) }

\* --------------------------------------------------------------- the state
VARIABLES
    localStorage,      \* storage key -> item
    heap,              \* the node objects of the page session
    root,              \* this.tree.root of the state holder (Null: no holder)
    pathToNodeIndex,   \* own properties of the tree's index
    holder,            \* "none", "live", or "failed" (the constructor threw)
    last,              \* the last call, its arguments and its outcome
    dom,               \* the <li> elements created by the Core
    requests,          \* the list requests in flight
    collapsedByUser,   \* paths collapsed by a click and not clicked since
    clicks,            \* number of clicks so far
    other,             \* a second state holder on the same page
    oldTree,           \* the tree of src/js/fileTree.js run side by side
    jsonProvider,      \* this.tree of the JsonDataProvider
    fileDataObject     \* in a listing: node object -> identity of its fileData object

\* The state of the page outside the first state holder.
extVars == <<dom, requests, collapsedByUser, clicks, other, oldTree, jsonProvider,
            fileDataObject>>

vars == <<localStorage, heap, root, pathToNodeIndex, holder, last, extVars>>

\* No tree has been built.
NoTree == [root |-> Null, index |-> [p \in {} |-> Null]]

\* No second holder has been created.
NoHolder == [holder |-> "none", root |-> Null, index |-> [p \in {} |-> Null]]

\* Nothing is rendered: no <li>, no element under the container.
NoView == [els |-> <<>>, top |-> 0]

\* No view, no request, no second holder.
ExtInit ==
    /\ dom = NoView
    /\ requests = <<>>
    /\ collapsedByUser = {}
    /\ clicks = 0
    /\ other = NoHolder
    /\ oldTree = NoTree
    /\ jsonProvider = NoTree
    /\ fileDataObject = <<>>

NoIndex == [p \in {} |-> Null]

Call(op, path, nodes, stateString, outcome, ret) ==
    [op |-> op, path |-> path, nodes |-> nodes, stateString |-> stateString,
     outcome |-> outcome, ret |-> ret]

Init ==
    /\ localStorage \in [{storageKey(id) : id \in TreeIds} -> InitialItems]
    /\ heap = <<>>
    /\ root = Null
    /\ pathToNodeIndex = NoIndex
    /\ holder = "none"
    /\ last = Call("none", "", <<>>, NoItem, "ok", Null)
    /\ ExtInit

\* initState as a slip would write it: the root's file data lacks `name`.
initStateRootNode_withoutName ==
    Dir([path |-> "", type |-> "directory", expandable |-> TRUE], <<>>)

\* function initState(): the root node it creates.
initStateRootNode == Dir(RootFileData, <<>>)

\* saveState as a slip would write it: nothing is stored.
saveState_skipped(store, h, r) == store

\* this.saveState(): localStorage afterwards.
saveState(store, h, r) == [store EXCEPT ![storageKey(treeId)] = stringify(h, r)]

\* The constructor failed: no holder, its objects are unreachable.
ConstructorThrows(stateString, error) ==
    /\ heap' = <<>>
    /\ root' = Null
    /\ pathToNodeIndex' = NoIndex
    /\ holder' = "failed"
    /\ last' = Call("newHolder", "", <<>>, stateString, error, Null)
    /\ UNCHANGED localStorage

\* The constructor LocalStorageStateHolder, on a freshly loaded page.
Construct ==
    LET stateString == localStorage[storageKey(treeId)] IN
        IF stateString # NoItem
        THEN IF parseThrows(stateString)
             THEN ConstructorThrows(stateString, "SyntaxError")
             ELSE LET parsed == Alloc(<<>>, stateString.json) IN
                  IF indexThrows(parsed.heap, parsed.id)
                  THEN ConstructorThrows(stateString, "TypeError")
                  ELSE /\ heap' = parsed.heap
                       /\ root' = parsed.id
                       /\ pathToNodeIndex' = index(parsed.heap, NoIndex, parsed.id)
                       /\ holder' = "live"
                       /\ last' = Call("newHolder", "", <<>>, stateString, "ok", Null)
                       /\ UNCHANGED localStorage
        ELSE LET created == Alloc(<<>>, initStateRootNode) IN
             /\ localStorage' = [localStorage EXCEPT
                                    ![storageKey(treeId)] = JsonText(initStateRootNode)]
             /\ heap' = created.heap
             /\ root' = created.id
             /\ pathToNodeIndex' = index(created.heap, NoIndex, created.id)
             /\ holder' = "live"
             /\ last' = Call("newHolder", "", <<>>, stateString, "ok", Null)

\* getLocalStorageStateHolder(id), on a freshly loaded page.
NewHolder ==
    /\ Construct
    /\ UNCHANGED extVars

\* this.addNodes(path, children)
AddNodes(path, children) ==
    /\ holder = "live"
    /\ UNCHANGED extVars
    /\ Len(heap) + CountNodesSeq(children) <= MaxHeap
    /\ IF mutationThrows(pathToNodeIndex, path)
       THEN /\ last' = Call("addNodes", path, children, NoItem, "TypeError", Null)
            /\ UNCHANGED <<localStorage, heap, root, pathToNodeIndex, holder>>
       ELSE LET made == AllocSeq(heap, children)
                done == set(made.heap, pathToNodeIndex, path, made.ids)
            IN /\ heap' = done.heap
               /\ pathToNodeIndex' = done.index
               /\ localStorage' = saveState(localStorage, done.heap, root)
               /\ last' = Call("addNodes", path, children, NoItem, "ok", done.ret)
               /\ UNCHANGED <<root, holder>>

\* this.clearNode(path)
ClearNode(path) ==
    /\ holder = "live"
    /\ UNCHANGED extVars
    /\ IF mutationThrows(pathToNodeIndex, path)
       THEN /\ last' = Call("clearNode", path, <<>>, NoItem, "TypeError", Null)
            /\ UNCHANGED <<localStorage, heap, root, pathToNodeIndex, holder>>
       ELSE LET done == clear(heap, pathToNodeIndex, path)
            IN /\ heap' = done.heap
               /\ pathToNodeIndex' = done.index
               /\ localStorage' = saveState(localStorage, done.heap, root)
               /\ last' = Call("clearNode", path, <<>>, NoItem, "ok", Null)
               /\ UNCHANGED <<root, holder>>

\* this.tree.get(path)
Get(path) ==
    /\ holder = "live"
    /\ UNCHANGED extVars
    /\ last' = Call("get", path, <<>>, NoItem, "ok", get(pathToNodeIndex, path))
    /\ UNCHANGED <<localStorage, heap, root, pathToNodeIndex, holder>>

\* Single nodes handed to add.
AddInputs == {Dir(FdC, <<>>), Dir(FdA, <<Leaf(FdAB)>>), Leaf(FdAB)}

\* this.tree.add(parentPath, node)
Add(parentPath, node) ==
    /\ holder = "live"
    /\ UNCHANGED extVars
    /\ Len(heap) + CountNodes(node) <= MaxHeap
    /\ IF ~bareGetIsDefined
       THEN /\ last' = Call("add", parentPath, <<node>>, NoItem, "ReferenceError", Null)
            /\ UNCHANGED <<localStorage, heap, root, pathToNodeIndex, holder>>
       ELSE LET made == Alloc(heap, node) IN
            IF \/ ~IsNode(get(pathToNodeIndex, parentPath))
               \/ "children" \notin DOMAIN heap[get(pathToNodeIndex, parentPath)]
            THEN /\ heap' = made.heap
                 /\ pathToNodeIndex' = index(made.heap, pathToNodeIndex, made.id)
                 /\ last' = Call("add", parentPath, <<node>>, NoItem, "TypeError", Null)
                 /\ UNCHANGED <<localStorage, root, holder>>
            ELSE LET done == add(made.heap, pathToNodeIndex, parentPath, made.id)
                 IN /\ heap' = done.heap
                    /\ pathToNodeIndex' = done.index
                    /\ last' = Call("add", parentPath, <<node>>, NoItem, "ok", Null)
                    /\ UNCHANGED <<localStorage, root, holder>>

Next ==
    \/ NewHolder
    \/ \E parentPath \in CallPaths, node \in AddInputs : Add(parentPath, node)
    \/ \E path \in CallPaths, children \in InputNodes : AddNodes(path, children)
    \/ \E path \in CallPaths : ClearNode(path)
    \/ \E path \in CallPaths : Get(path)

Spec == Init /\ [][Next]_vars

\* ---------------------------------------------------------- data providers
\* Longest listing a provider delivers.
MaxList == 3

FdD == [path |-> "/d", name |-> "d", type |-> "directory",  expandable |-> TRUE]
FdX == [path |-> "/x", name |-> "x", type |-> "text/plain", expandable |-> FALSE]

\* File data records a listing is made of: two directories, an archive, two
\* plain files.
ListedFiles == {FdA, FdD, FdC, FdAB, FdX}

\* The listings of at most MaxList records.
RawLists == UNION {[1..n -> ListedFiles] : n \in 0..MaxList}

\* function weight(node), local to sortNodes
weight(node) ==
    IF node.fileData.type = "directory" THEN 2
    ELSE IF node.fileData.expandable THEN 1 ELSE 0

\* sortNodes as a slip would write it: the operands of the difference swapped.
sortNodes_ascending(first, second) == weight(first) - weight(second)

\* function sortNodes(first, second)
sortNodes(first, second) == weight(second) - weight(first)

\* Array.prototype.sort(sortNodes).  The sort is stable (ECMAScript 2019):
\* an element moves in front of exactly those elements the comparator puts
\* strictly after it.
RECURSIVE insertSorted(_, _)
insertSorted(sorted, node) ==
    IF sorted = <<>> THEN <<node>>
    ELSE IF sortNodes(Head(sorted), node) > 0 THEN <<node>> \o sorted
    ELSE <<Head(sorted)>> \o insertSorted(Tail(sorted), node)
RECURSIVE arraySort(_)
arraySort(nodes) ==
    IF nodes = <<>> THEN <<>>
    ELSE insertSorted(arraySort(SubSeq(nodes, 1, Len(nodes) - 1)), nodes[Len(nodes)])

\* mapToTreeNode: the nodes made from the records, before nodes.sort.
mappedNodes(data) == [i \in DOMAIN data |-> [fileData |-> data[i], children |-> <<>>]]

\* function mapToTreeNode(data, callback): the nodes handed to callback.
mapToTreeNode(data) == arraySort(mappedNodes(data))

\* The node the static document holds for a record: an expandable node has
\* children of its own there.
documentNode(fd) == IF fd.expandable THEN Dir(fd, <<Leaf(FdAB)>>) ELSE Leaf(fd)
documentNodes(data) == [i \in DOMAIN data |-> documentNode(data[i])]

\* ------------------------------------------------------------------- Core
\* copyChildren as a slip would write it: `copy.fileData = child.fileData`,
\* the copy holds the child's own fileData object.
RECURSIVE copyChildren_sharedFileData(_, _)
copyChildren_sharedFileData(h, children) ==
    IF children = <<>> THEN [heap |-> h, ids |-> <<>>, fileDataOf |-> <<>>]
    ELSE LET child == h[Head(children)]
             copy == IF child.fileData.expandable
                     THEN [fileData |-> child.fileData, children |-> <<>>]
                     ELSE [fileData |-> child.fileData]
             first == IF isEmptyNode(child)
                      THEN [heap |-> h, id |-> Head(children)]
                      ELSE [heap |-> Append(h, copy), id |-> Len(h) + 1]
             rest == copyChildren_sharedFileData(first.heap, Tail(children))
         IN [heap |-> rest.heap, ids |-> <<first.id>> \o rest.ids,
             fileDataOf |-> <<Head(children)>> \o rest.fileDataOf]

\* function copyChildren(children), children being identities of the heap h.
\* The result is the heap with the copies, the identities of `result`, and
\* for each element of `result` the node its fileData object was created
\* with: `$.extend({}, child.fileData)` is a new object, created with the
\* copy (an EmptyMarker is pushed as it is).
RECURSIVE copyChildren(_, _)
copyChildren(h, children) ==
    IF children = <<>> THEN [heap |-> h, ids |-> <<>>, fileDataOf |-> <<>>]
    ELSE LET child == h[Head(children)]
             copy == IF child.fileData.expandable
                     THEN [fileData |-> child.fileData, children |-> <<>>]
                     ELSE [fileData |-> child.fileData]
             first == IF isEmptyNode(child)
                      THEN [heap |-> h, id |-> Head(children)]
                      ELSE [heap |-> Append(h, copy), id |-> Len(h) + 1]
             rest == copyChildren(first.heap, Tail(children))
         IN [heap |-> rest.heap, ids |-> <<first.id>> \o rest.ids,
             fileDataOf |-> <<first.id>> \o rest.fileDataOf]

\* The fileData objects after a listing: a node made by the provider (the
\* parsed record, `fileData: e`) holds the object it was created with, a
\* copy the object copyChildren gave it.  known are the objects of the
\* nodes that existed before, h is the heap after copyChildren.
fileDataObjects(known, h, copied) ==
    LET own(n) == IF n <= Len(known) THEN known[n] ELSE n
    IN [n \in DOMAIN h |->
           IF \E i \in DOMAIN copied.ids : copied.ids[i] = n
           THEN own(copied.fileDataOf[CHOOSE i \in DOMAIN copied.ids : copied.ids[i] = n])
           ELSE own(n)]

\* The success callback as a slip would write it: nothing is pushed.
withEmptyNode_nothingPushed(h, data) == [heap |-> h, ids |-> data]

\* `if (data.length == 0) data.push({empty:true})` in the success callback.
withEmptyNode(h, data) ==
    IF Len(data) = 0
    THEN [heap |-> Append(h, EmptyMarker), ids |-> <<Len(h) + 1>>]
    ELSE [heap |-> h, ids |-> data]

\* ------------------------------------------------------- the rendered view
\* Most clicks in one run.
MaxClicks == 4

\* An <li>: the path of its <span> and what the span is ("expandable": with
\* the click handler, "plain", "empty": the <empty> item, "none": the <li>
\* was emptied), its loader <div>s, its <ul class="nested"> and the <li>
\* rendered directly into it.
Li(path, span) ==
    [path |-> path, span |-> span, loaders |-> 0,
     hasNested |-> FALSE, nested |-> <<>>, inner |-> 0]

\* function renderItem(element, node): the new <li>.
renderItem(node) ==
    Li(node.fileData.path, IF node.fileData.expandable THEN "expandable" ELSE "plain")

\* function renderEmptyItem(element): the new <li>.
renderEmptyItem == Li("", "empty")

\* function render(element, tree, deepRender) on the elements els; the
\* result is the elements and the <li> appended to `element`.
RECURSIVE render(_, _, _, _)
RECURSIVE renderSubnodes(_, _, _, _)
renderSubnodes(els, h, subnodes, deepRender) ==
    IF subnodes = <<>> THEN [els |-> els, ids |-> <<>>]
    ELSE LET subnode == h[Head(subnodes)]
             first == IF isEmptyNode(subnode)
                      THEN [els |-> Append(els, renderEmptyItem), id |-> Len(els) + 1]
                      ELSE IF deepRender
                      THEN render(els, h, Head(subnodes), deepRender)
                      ELSE [els |-> Append(els, renderItem(subnode)), id |-> Len(els) + 1]
             rest == renderSubnodes(first.els, h, Tail(subnodes), deepRender)
         IN [els |-> rest.els, ids |-> <<first.id>> \o rest.ids]
render(els, h, tree, deepRender) ==
    IF isEmptyNode(h[tree])
    THEN [els |-> Append(els, renderEmptyItem), id |-> Len(els) + 1]
    ELSE LET item == Len(els) + 1
             withItem == Append(els, renderItem(h[tree]))
         IN IF h[tree].fileData.expandable /\ Len(h[tree].children) > 0
            THEN LET sub == renderSubnodes(withItem, h, h[tree].children, deepRender)
                 IN [els |-> [sub.els EXCEPT ![item].hasNested = TRUE,
                                             ![item].nested = sub.ids],
                     id |-> item]
            ELSE [els |-> withItem, id |-> item]

\* this.init(element): the view after the deep render of the current state.
init(h, tree) ==
    LET rendered == render(<<>>, h, tree, TRUE)
    IN [els |-> rendered.els, top |-> rendered.id]

\* The <li> elements in the document under the <li> id, itself included.
RECURSIVE Under(_, _)
Under(els, id) ==
    {id}
    \cup UNION {Under(els, els[id].nested[i]) : i \in DOMAIN els[id].nested}
    \cup (IF els[id].inner # 0 THEN Under(els, els[id].inner) ELSE {})

\* The <li> elements in the document.
Attached(view) == IF view.top = 0 THEN {} ELSE Under(view.els, view.top)

\* parent.has('ul.nested').length > 0
hasNestedList(els, parent) == \E e \in Under(els, parent) : els[e].hasNested

\* ----------------------------------------------------- the remote service
\* The listing the service holds for each path it knows.
serviceFiles ==
    [path \in {"", "/a", "/c"} |->
        CASE path = ""   -> <<FdC, FdA>>
          [] path = "/a" -> <<FdAB>>
          [] path = "/c" -> <<>>]

\* Status codes of a failed request (0: no answer).
FailureStatuses == {0, 404, 500, 501}

\* The .fail handler as a slip would write it: the alert branch returns
\* instead of breaking out of the switch.
failed_returnAfterAlert(status, responseText) ==
    [alert |-> IF status \in {501, 404} THEN <<responseText>> ELSE <<>>,
     logged |-> status \notin {501, 404},
     errorCallback |-> IF status \in {501, 404} THEN 0 ELSE 1,
     callback |-> 0]

\* ServiceDataProvider.list, the .fail handler: the alerts raised, whether
\* console.error was called, and how often each callback was invoked.
failed(status, responseText) ==
    [alert |-> IF status \in {501, 404} THEN <<responseText>> ELSE <<>>,
     logged |-> status \notin {501, 404},
     errorCallback |-> 1,
     callback |-> 0]

\* --------------------------------------------------- the page: Core events
Event(op, path, li, outcome, status, handled) ==
    [op |-> op, path |-> path, li |-> li, outcome |-> outcome,
     status |-> status, handled |-> handled]

\* No request failed in this event.
NotFailed == [alert |-> <<>>, logged |-> FALSE, errorCallback |-> 0, callback |-> 0]
\* The success callback was invoked once.
Succeeded == [alert |-> <<>>, logged |-> FALSE, errorCallback |-> 0, callback |-> 1]

\* What the key may hold before the page is opened.
PageInitialItems ==
    { NoItem,
      JsonText(Dir(RootFileData, <<Dir(FdA, <<Leaf(FdAB)>>), Dir(FdC, <<>>)>>)) }

PageInit ==
    /\ localStorage \in [{storageKey(id) : id \in TreeIds} -> PageInitialItems]
    /\ heap = <<>>
    /\ root = Null
    /\ pathToNodeIndex = NoIndex
    /\ holder = "none"
    /\ last = Call("none", "", <<>>, NoItem, "ok", Null)
    /\ ExtInit

\* $(e).fileTree({serviceUrl: ...}) on a freshly loaded page: the state
\* holder is created, load calls back at once, Core.init renders the state.
PageLoad ==
    /\ holder = "none"
    /\ Construct
    /\ dom' = IF holder' = "live" THEN init(heap', root') ELSE NoView
    /\ UNCHANGED <<requests, collapsedByUser, clicks, other, oldTree, jsonProvider, fileDataObject>>

\* expandableNodeClickHandler on the span of the <li> parent, when it has a
\* nested list: collapse.
Collapse(parent) ==
    LET path == dom.els[parent].path
        removed == [dom EXCEPT !.els[parent].hasNested = FALSE,
                               !.els[parent].nested = <<>>]
    IN /\ hasNestedList(dom.els, parent)
       /\ dom' = removed
       /\ collapsedByUser' = collapsedByUser \cup {path}
       /\ IF mutationThrows(pathToNodeIndex, path)
          THEN /\ last' = Event("collapse", path, parent, "TypeError", 0, NotFailed)
               /\ UNCHANGED <<localStorage, heap, pathToNodeIndex>>
          ELSE LET done == clear(heap, pathToNodeIndex, path)
               IN /\ heap' = done.heap
                  /\ pathToNodeIndex' = done.index
                  /\ localStorage' = saveState(localStorage, done.heap, root)
                  /\ last' = Event("collapse", path, parent, "ok", 0, NotFailed)
       /\ UNCHANGED requests

\* expandableNodeClickHandler, when the <li> has no nested list: expand.
\* The loader is appended and the service is asked for the listing.
Expand(parent) ==
    LET path == dom.els[parent].path
    IN /\ ~hasNestedList(dom.els, parent)
       /\ dom' = [dom EXCEPT !.els[parent].loaders = @ + 1]
       /\ requests' = Append(requests, [path |-> path, parent |-> parent])
       /\ collapsedByUser' = collapsedByUser \ {path}
       /\ last' = Event("expand", path, parent, "ok", 0, NotFailed)
       /\ UNCHANGED <<localStorage, heap, pathToNodeIndex>>

\* The user clicks the span of an expandable item of the document.
Click(parent) ==
    /\ holder = "live"
    /\ clicks < MaxClicks
    /\ parent \in Attached(dom)
    /\ dom.els[parent].span = "expandable"
    /\ clicks' = clicks + 1
    /\ Collapse(parent) \/ Expand(parent)
    /\ UNCHANGED <<root, holder, other, oldTree, jsonProvider, fileDataObject>>

\* The sequence s without its element i.
Without(s, i) == SubSeq(s, 1, i - 1) \o SubSeq(s, i + 1, Len(s))

\* The request i succeeds: mapToTreeNode, then the success callback of
\* expandableNodeClickHandler.
ListSuccess(i) ==
    LET path == requests[i].path
        parent == requests[i].parent
        delivered == AllocSeq(heap, mapToTreeNode(serviceFiles[path]))
        data == withEmptyNode(delivered.heap, delivered.ids)
        copied == copyChildren(data.heap, data.ids)
    IN /\ holder = "live"
       /\ path \in DOMAIN serviceFiles
       /\ requests' = Without(requests, i)
       /\ IF mutationThrows(pathToNodeIndex, path)
          THEN /\ last' = Event("listSuccess", path, parent, "TypeError", 200, Succeeded)
               /\ UNCHANGED <<localStorage, heap, pathToNodeIndex, dom>>
          ELSE LET done == set(copied.heap, pathToNodeIndex, path, copied.ids)
                   emptied == [dom.els EXCEPT ![parent] = Li(@.path, "none")]
                   shown == render(emptied, done.heap, done.ret, FALSE)
               IN /\ heap' = done.heap
                  /\ pathToNodeIndex' = done.index
                  /\ localStorage' = saveState(localStorage, done.heap, root)
                  /\ dom' = [dom EXCEPT !.els = [shown.els EXCEPT ![parent].inner = shown.id]]
                  /\ last' = Event("listSuccess", path, parent, "ok", 200, Succeeded)
       /\ UNCHANGED <<root, holder, collapsedByUser, clicks, other, oldTree, jsonProvider, fileDataObject>>

\* The request i fails with the status code status: the .fail handler, then
\* the error callback of expandableNodeClickHandler.
ListFail(i, status) ==
    LET path == requests[i].path
        parent == requests[i].parent
    IN /\ holder = "live"
       /\ requests' = Without(requests, i)
       /\ dom' = [dom EXCEPT !.els[parent].loaders = 0]
       /\ last' = Event("listFail", path, parent, "ok", status,
                        failed(status, "message of the server"))
       /\ UNCHANGED <<localStorage, heap, root, pathToNodeIndex, holder,
                      collapsedByUser, clicks, other, oldTree, jsonProvider, fileDataObject>>

PageNext ==
    \/ PageLoad
    \/ \E parent \in DOMAIN dom.els : Click(parent)
    \/ \E i \in DOMAIN requests : ListSuccess(i)
    \/ \E i \in DOMAIN requests, status \in FailureStatuses : ListFail(i, status)

PageSpec == PageInit /\ [][PageNext]_vars

\* ---------------------------------------------------------------------
\* Two trees on one page: $(a).fileTree({treeId: "A"}) and
\* $(b).fileTree({treeId: "B"}) share window.localStorage and the heap.

\* The identifier of the second tree.
otherTreeId == "B"

TwoTreeIds == {treeId, otherTreeId}

\* What localStorage holds under either key when the page is loaded.
TwoInitialItems ==
    {NoItem, JsonText(Dir(RootFileData, <<Dir(FdA, <<>>)>>))}

TwoTreesInit ==
    /\ localStorage \in [{storageKey(id) : id \in TwoTreeIds} -> TwoInitialItems]
    /\ heap = <<>>
    /\ root = Null
    /\ pathToNodeIndex = NoIndex
    /\ holder = "none"
    /\ last = Call("none", "", <<>>, NoItem, "ok", Null)
    /\ ExtInit

\* getLocalStorageStateHolder(otherTreeId): the second holder, its objects
\* allocated next to the first one's.
NewOtherHolder ==
    /\ holder = "live"
    /\ other.holder = "none"
    /\ LET stateString == localStorage[storageKey(otherTreeId)] IN
           IF stateString # NoItem
           THEN IF parseThrows(stateString)
                THEN /\ other' = [NoHolder EXCEPT !.holder = "failed"]
                     /\ last' = Call("newOtherHolder", "", <<>>, stateString, "SyntaxError", Null)
                     /\ UNCHANGED <<localStorage, heap>>
                ELSE LET parsed == Alloc(heap, stateString.json) IN
                     IF indexThrows(parsed.heap, parsed.id)
                     THEN /\ other' = [NoHolder EXCEPT !.holder = "failed"]
                          /\ heap' = parsed.heap
                          /\ last' = Call("newOtherHolder", "", <<>>, stateString, "TypeError", Null)
                          /\ UNCHANGED localStorage
                     ELSE /\ other' = [holder |-> "live", root |-> parsed.id,
                                       index |-> index(parsed.heap, NoIndex, parsed.id)]
                          /\ heap' = parsed.heap
                          /\ last' = Call("newOtherHolder", "", <<>>, stateString, "ok", Null)
                          /\ UNCHANGED localStorage
           ELSE LET created == Alloc(heap, initStateRootNode) IN
                /\ localStorage' = [localStorage EXCEPT
                                       ![storageKey(otherTreeId)] = JsonText(initStateRootNode)]
                /\ other' = [holder |-> "live", root |-> created.id,
                             index |-> index(created.heap, NoIndex, created.id)]
                /\ heap' = created.heap
                /\ last' = Call("newOtherHolder", "", <<>>, stateString, "ok", Null)
    /\ UNCHANGED <<root, pathToNodeIndex, holder, dom, requests, collapsedByUser, clicks,
                   oldTree, jsonProvider, fileDataObject>>

TwoTreesNext ==
    \/ (holder = "none" /\ NewHolder)
    \/ NewOtherHolder
    \/ \E path \in CallPaths, children \in InputNodes : AddNodes(path, children)
    \/ \E path \in CallPaths : ClearNode(path)

TwoTreesSpec == TwoTreesInit /\ [][TwoTreesNext]_vars

\* ---------------------------------------------------------------------

\* ---------------------------------------------------------------------
\* The IndexedFileDataTree of src/js/fileTree.js, run side by side with the
\* one of src/unnamed/part_000 on a root of its own.

\* function index(node) of src/js/fileTree.js: no test for an EmptyMarker.
RECURSIVE index_js(_, _, _)
RECURSIVE indexAll_js(_, _, _)
indexAll_js(h, idx, ids) ==
    IF ids = <<>> THEN idx
    ELSE indexAll_js(h, index_js(h, idx, Head(ids)), Tail(ids))
index_js(h, idx, id) ==
    LET node == h[id]
        put == (node.fileData.path :> id) @@ idx
    IN IF node.fileData.expandable
       THEN indexAll_js(h, put, node.children)
       ELSE put

\* function removeFromIndex(node) of src/js/fileTree.js
RECURSIVE removeFromIndex_js(_, _, _)
RECURSIVE removeAllFromIndex_js(_, _, _)
removeAllFromIndex_js(h, idx, ids) ==
    IF ids = <<>> THEN idx
    ELSE removeAllFromIndex_js(h, removeFromIndex_js(h, idx, Head(ids)), Tail(ids))
removeFromIndex_js(h, idx, id) ==
    LET node == h[id]
        del == [p \in (DOMAIN idx) \ {node.fileData.path} |-> idx[p]]
    IN IF node.fileData.expandable
       THEN removeAllFromIndex_js(h, del, node.children)
       ELSE del

\* `if (node.fileData.expandable) node.children.forEach(removeFromIndex)`
dropChildren_js(h, idx, node) ==
    IF h[node].fileData.expandable
    THEN removeAllFromIndex_js(h, idx, h[node].children)
    ELSE idx

\* this.set(parentPath, nodes) of src/js/fileTree.js
set_js(h, idx, parentPath, ids) ==
    LET node == get(idx, parentPath)
        dropped == dropChildren_js(h, idx, node)
        h2 == [h EXCEPT ![node] = [fileData |-> h[node].fileData, children |-> ids]]
    IN [heap |-> h2, index |-> indexAll_js(h2, dropped, ids), ret |-> node]

\* this.clear(parentPath) of src/js/fileTree.js
clear_js(h, idx, parentPath) ==
    LET node == get(idx, parentPath)
        dropped == dropChildren_js(h, idx, node)
    IN [heap |-> [h EXCEPT ![node] = [fileData |-> h[node].fileData, children |-> <<>>]],
        index |-> dropped]

\* The roots both trees are built from, and the children sequences handed
\* to set: none holds an EmptyMarker.
MarkerFreeRoots ==
    { Dir(RootFileData, <<>>),
      Dir(RootFileData, <<Dir(FdA, <<Leaf(FdAB)>>)>>) }
MarkerFreeNodes == {nodes \in InputNodes : \A i \in DOMAIN nodes : ~isEmptyNode(nodes[i])}

\* One call made on both trees, and the outcome in each.
BothCalls(op, path, nodes, outcome, outcome_js) ==
    [op |-> op, path |-> path, nodes |-> nodes, outcome |-> outcome,
     outcome_js |-> outcome_js]

SideBySideInit ==
    /\ localStorage = [k \in {storageKey(id) : id \in TreeIds} |-> NoItem]
    /\ heap = <<>>
    /\ root = Null
    /\ pathToNodeIndex = NoIndex
    /\ holder = "none"
    /\ last = BothCalls("none", "", <<>>, "ok", "ok")
    /\ ExtInit

\* getIndexedFileDataTree(root) of either file, each on its own copy of the
\* same root.
NewTrees(rootValue) ==
    /\ root = Null
    /\ LET made == Alloc(<<>>, rootValue)
           made_js == Alloc(made.heap, rootValue)
       IN /\ heap' = made_js.heap
          /\ root' = made.id
          /\ pathToNodeIndex' = index(made.heap, NoIndex, made.id)
          /\ oldTree' = [root |-> made_js.id,
                         index |-> index_js(made_js.heap, NoIndex, made_js.id)]
    /\ last' = BothCalls("new", "", <<rootValue>>, "ok", "ok")
    /\ UNCHANGED <<localStorage, holder, dom, requests, collapsedByUser, clicks,
                   other, jsonProvider, fileDataObject>>

\* set(parentPath, nodes) on both trees, each with nodes of its own.
SetBoth(parentPath, nodes) ==
    /\ root # Null
    /\ Len(heap) + 2 * CountNodesSeq(nodes) <= 2 * MaxHeap
    /\ LET throws == mutationThrows(pathToNodeIndex, parentPath)
           throws_js == mutationThrows(oldTree.index, parentPath)
           made == AllocSeq(heap, nodes)
           done == IF throws THEN [heap |-> made.heap, index |-> pathToNodeIndex]
                   ELSE set(made.heap, pathToNodeIndex, parentPath, made.ids)
           made_js == AllocSeq(done.heap, nodes)
           done_js == IF throws_js THEN [heap |-> made_js.heap, index |-> oldTree.index]
                      ELSE set_js(made_js.heap, oldTree.index, parentPath, made_js.ids)
       IN /\ heap' = done_js.heap
          /\ pathToNodeIndex' = done.index
          /\ oldTree' = [oldTree EXCEPT !.index = done_js.index]
          /\ last' = BothCalls("set", parentPath, nodes,
                               IF throws THEN "TypeError" ELSE "ok",
                               IF throws_js THEN "TypeError" ELSE "ok")
    /\ UNCHANGED <<localStorage, root, holder, dom, requests, collapsedByUser, clicks,
                   other, jsonProvider, fileDataObject>>

\* clear(parentPath) on both trees.
ClearBoth(parentPath) ==
    /\ root # Null
    /\ LET throws == mutationThrows(pathToNodeIndex, parentPath)
           throws_js == mutationThrows(oldTree.index, parentPath)
           done == IF throws THEN [heap |-> heap, index |-> pathToNodeIndex]
                   ELSE clear(heap, pathToNodeIndex, parentPath)
           done_js == IF throws_js THEN [heap |-> done.heap, index |-> oldTree.index]
                      ELSE clear_js(done.heap, oldTree.index, parentPath)
       IN /\ heap' = done_js.heap
          /\ pathToNodeIndex' = done.index
          /\ oldTree' = [oldTree EXCEPT !.index = done_js.index]
          /\ last' = BothCalls("clear", parentPath, <<>>,
                               IF throws THEN "TypeError" ELSE "ok",
                               IF throws_js THEN "TypeError" ELSE "ok")
    /\ UNCHANGED <<localStorage, root, holder, dom, requests, collapsedByUser, clicks,
                   other, jsonProvider, fileDataObject>>

SideBySideNext ==
    \/ \E rootValue \in MarkerFreeRoots : NewTrees(rootValue)
    \/ \E parentPath \in CallPaths, nodes \in MarkerFreeNodes : SetBoth(parentPath, nodes)
    \/ \E parentPath \in CallPaths : ClearBoth(parentPath)

SideBySideSpec == SideBySideInit /\ [][SideBySideNext]_vars

\* ---------------------------------------------------------------------

\* ---------------------------------------------------------------------
\* The page with the JsonDataProvider: $(e).fileTree({jsonLocation: ...}).

\* The JSON documents the location may serve: the second one no longer
\* holds /c.
Documents ==
    { Dir(RootFileData, <<Dir(FdC, <<>>), Dir(FdA, <<Leaf(FdAB)>>)>>),
      Dir(RootFileData, <<Dir(FdA, <<Leaf(FdAB)>>)>>) }

\* data.sort(sortNodes) on the array ids of objects of the heap h: the
\* array afterwards.  An array of one element is not compared at all.
sortInPlace(h, ids) ==
    IF Len(ids) <= 1 THEN ids
    ELSE LET keyed == [i \in DOMAIN ids |-> [fileData |-> h[ids[i]].fileData, id |-> ids[i]]]
             sorted == arraySort(keyed)
         IN [i \in DOMAIN ids |-> sorted[i].id]

JsonPageInit ==
    /\ localStorage \in [{storageKey(id) : id \in TreeIds} -> PageInitialItems]
    /\ heap = <<>>
    /\ root = Null
    /\ pathToNodeIndex = NoIndex
    /\ holder = "none"
    /\ last = Call("none", "", <<>>, NoItem, "ok", Null)
    /\ ExtInit

\* $(e).fileTree({jsonLocation: ...}) on a freshly loaded page: the state
\* holder is created and dataProvider.load requests the document.
JsonPageOpen ==
    /\ holder = "none"
    /\ Construct
    /\ UNCHANGED extVars

\* The document arrives: JsonDataProvider.load builds this.tree from it and
\* calls back, Core.init renders the state of the holder.
JsonLoaded(document) ==
    /\ holder = "live"
    /\ jsonProvider.root = Null
    /\ LET made == Alloc(heap, document)
       IN /\ heap' = made.heap
          /\ jsonProvider' = [root |-> made.id,
                              index |-> index(made.heap, NoIndex, made.id)]
          /\ dom' = init(made.heap, root)
    /\ last' = Call("load", "", <<document>>, NoItem, "ok", Null)
    /\ UNCHANGED <<localStorage, root, pathToNodeIndex, holder, requests,
                   collapsedByUser, clicks, other, oldTree, fileDataObject>>

\* expandableNodeClickHandler, when the <li> has no nested list: expand.
\* JsonDataProvider.list runs inside the handler: this.tree.get(path)
\* .children, sorted in place, is handed to the success callback, which
\* pushes the EmptyMarker into that very array when it is empty.
JsonExpand(parent) ==
    LET path == dom.els[parent].path
        loading == [dom EXCEPT !.els[parent].loaders = @ + 1]
        node == get(jsonProvider.index, path)
    IN /\ ~hasNestedList(dom.els, parent)
       /\ collapsedByUser' = collapsedByUser \ {path}
       /\ IF ~IsNode(node) \/ "children" \notin DOMAIN heap[node]
          THEN /\ dom' = loading
               /\ last' = Event("expand", path, parent, "TypeError", 0, NotFailed)
               /\ UNCHANGED <<localStorage, heap, pathToNodeIndex>>
          ELSE LET sorted == sortInPlace(heap, heap[node].children)
                   data == withEmptyNode(heap, sorted)
                   listed == [data.heap EXCEPT ![node].children = data.ids]
                   copied == copyChildren(listed, data.ids)
               IN IF mutationThrows(pathToNodeIndex, path)
                  THEN /\ dom' = loading
                       /\ heap' = copied.heap
                       /\ last' = Event("expand", path, parent, "TypeError", 0, Succeeded)
                       /\ UNCHANGED <<localStorage, pathToNodeIndex>>
                  ELSE LET done == set(copied.heap, pathToNodeIndex, path, copied.ids)
                           emptied == [dom.els EXCEPT ![parent] = Li(@.path, "none")]
                           shown == render(emptied, done.heap, done.ret, FALSE)
                       IN /\ heap' = done.heap
                          /\ pathToNodeIndex' = done.index
                          /\ localStorage' = saveState(localStorage, done.heap, root)
                          /\ dom' = [dom EXCEPT
                                        !.els = [shown.els EXCEPT ![parent].inner = shown.id]]
                          /\ last' = Event("expand", path, parent, "ok", 0, Succeeded)
       /\ UNCHANGED requests

\* The user clicks the span of an expandable item of the document.
JsonClick(parent) ==
    /\ holder = "live"
    /\ clicks < MaxClicks
    /\ parent \in Attached(dom)
    /\ dom.els[parent].span = "expandable"
    /\ clicks' = clicks + 1
    /\ Collapse(parent) \/ JsonExpand(parent)
    /\ UNCHANGED <<root, holder, other, oldTree, jsonProvider, fileDataObject>>

JsonPageNext ==
    \/ JsonPageOpen
    \/ \E document \in Documents : JsonLoaded(document)
    \/ \E parent \in DOMAIN dom.els : JsonClick(parent)

JsonPageSpec == JsonPageInit /\ [][JsonPageNext]_vars

\* What the page does it does eventually: the handler of a click runs to
\* its end, the document and every response of the service arrive.
JsonPageLive == JsonPageSpec /\ WF_vars(JsonPageOpen \/ \E document \in Documents : JsonLoaded(document))
Respond ==
    \E i \in DOMAIN requests :
        (\E status \in FailureStatuses : ListFail(i, status)) \/ ListSuccess(i)
PageLive == PageSpec /\ WF_vars(PageLoad) /\ WF_vars(Respond)

\* ---------------------------------------------------------------------
\* One listing of the root on a page opened with empty storage, from
\* list to the end of the success callback, with either provider.

\* The listing asked for (op "list") or handled (op "listed"): the records
\* raw, the provider's nodes before the sort (input), the array handed to
\* the success callback (data), the array handed to copyChildren (children:
\* data after the push of the EmptyMarker) and the array handed to
\* addNodes (copies).
Listing(op, provider, raw, input, data, children, copies) ==
    [op |-> op, provider |-> provider, raw |-> raw, input |-> input,
     data |-> data, children |-> children, copies |-> copies]

\* settings.stateHolder.addNodes(path, copies), then
\* render(parent.empty(), node): the heap, the index, localStorage and the
\* view afterwards.  When addNodes raises, render is not reached.
addNodesAndRender(h, idx, store, r, view, path, parent, copies) ==
    IF mutationThrows(idx, path)
    THEN [heap |-> h, index |-> idx, localStorage |-> store, dom |-> view]
    ELSE LET done == set(h, idx, path, copies)
             emptied == [view.els EXCEPT ![parent] = Li(@.path, "none")]
             shown == render(emptied, done.heap, done.ret, FALSE)
         IN [heap |-> done.heap,
             index |-> done.index,
             localStorage |-> saveState(store, done.heap, r),
             dom |-> [view EXCEPT !.els = [shown.els EXCEPT ![parent].inner = shown.id]]]

\* The page after $(e).fileTree(...) on empty storage.  With the service
\* provider the root item has been clicked and its request is in flight;
\* with the JSON provider the document, whose root holds the nodes of the
\* listing, has been loaded.
ListInit ==
    \E raw \in RawLists, provider \in {"service", "json"} :
        LET created == Alloc(<<>>, initStateRootNode)
            document == Alloc(created.heap, Dir(RootFileData, documentNodes(raw)))
            view == init(created.heap, created.id)
        IN /\ localStorage = [k \in {storageKey(id) : id \in TreeIds} |->
                                 JsonText(initStateRootNode)]
           /\ root = created.id
           /\ pathToNodeIndex = index(created.heap, NoIndex, created.id)
           /\ holder = "live"
           /\ last = Listing("list", provider, raw, <<>>, <<>>, <<>>, <<>>)
           /\ collapsedByUser = {}
           /\ other = NoHolder
           /\ oldTree = NoTree
           /\ IF provider = "service"
              THEN /\ heap = created.heap
                   /\ fileDataObject = [n \in DOMAIN created.heap |-> n]
                   /\ jsonProvider = NoTree
                   /\ dom = [view EXCEPT !.els[view.top].loaders = 1]
                   /\ requests = <<[path |-> "", parent |-> view.top]>>
                   /\ clicks = 1
              ELSE /\ heap = document.heap
                   /\ fileDataObject = [n \in DOMAIN document.heap |-> n]
                   /\ jsonProvider = [root |-> document.id,
                                      index |-> index(document.heap, NoIndex, document.id)]
                   /\ dom = view
                   /\ requests = <<>>
                   /\ clicks = 0

\* The request of ServiceDataProvider.list is answered with the records
\* last.raw: mapToTreeNode(data, callback), and the success callback of
\* expandableNodeClickHandler to its end.
ServiceListSuccess ==
    /\ last.op = "list"
    /\ last.provider = "service"
    /\ LET path == requests[1].path
           parent == requests[1].parent
           delivered == AllocSeq(heap, mapToTreeNode(last.raw))
           data == withEmptyNode(delivered.heap, delivered.ids)
           copied == copyChildren(data.heap, data.ids)
           done == addNodesAndRender(copied.heap, pathToNodeIndex, localStorage, root,
                                     dom, path, parent, copied.ids)
       IN /\ heap' = done.heap
          /\ pathToNodeIndex' = done.index
          /\ localStorage' = done.localStorage
          /\ dom' = done.dom
          /\ requests' = Tail(requests)
          /\ last' = Listing("listed", "service", last.raw, mappedNodes(last.raw),
                             delivered.ids, data.ids, copied.ids)
          /\ fileDataObject' = fileDataObjects(fileDataObject, done.heap, copied)
    /\ UNCHANGED <<root, holder, collapsedByUser, clicks, other, oldTree, jsonProvider>>

\* The root item is clicked with the JsonDataProvider: the loader is
\* appended, list sorts the children array of its own tree in place and
\* hands it to the success callback, which runs to its end.
JsonList ==
    /\ last.op = "list"
    /\ last.provider = "json"
    /\ LET parent == dom.top
           path == dom.els[parent].path
           node == get(jsonProvider.index, path)
           sorted == sortInPlace(heap, heap[node].children)
           data == withEmptyNode(heap, sorted)
           listed == [data.heap EXCEPT ![node].children = data.ids]
           copied == copyChildren(listed, data.ids)
           done == addNodesAndRender(copied.heap, pathToNodeIndex, localStorage, root,
                                     [dom EXCEPT !.els[parent].loaders = @ + 1],
                                     path, parent, copied.ids)
       IN /\ heap' = done.heap
          /\ pathToNodeIndex' = done.index
          /\ localStorage' = done.localStorage
          /\ dom' = done.dom
          /\ last' = Listing("listed", "json", last.raw,
                             [i \in DOMAIN heap[node].children |->
                                 ToValue(heap, heap[node].children[i])],
                             sorted, data.ids, copied.ids)
          /\ fileDataObject' = fileDataObjects(fileDataObject, done.heap, copied)
    /\ clicks' = clicks + 1
    /\ UNCHANGED <<root, holder, requests, collapsedByUser, other, oldTree, jsonProvider>>

ListNext ==
    \/ ServiceListSuccess
    \/ JsonList

ListSpec == ListInit /\ [][ListNext]_vars

\* ---------------------------------------------------------------------

\* ================================================================ properties
\* The node objects reachable from the object id through children arrays.
RECURSIVE ReachableNodes(_, _)
ReachableNodes(h, id) ==
    {id} \cup
    (IF "children" \in DOMAIN h[id]
     THEN UNION {ReachableNodes(h, h[id].children[i]) : i \in DOMAIN h[id].children}
     ELSE {})

\* The paths of the non-EmptyMarker nodes among ids.
PathsOf(h, ids) == {h[i].fileData.path : i \in {j \in ids : ~isEmptyNode(h[j])}}

\* The paths of the children and deeper descendants of the object id.
DescendantPaths(h, id) == PathsOf(h, ReachableNodes(h, id) \ {id})

\* The file paths for which get succeeds.
GetSucceeds(idx) == {p \in FilePaths : get(idx, p) # Null}

\* The children of the object id, as values in order.
ChildValues(h, id) == [i \in DOMAIN h[id].children |-> ToValue(h, h[id].children[i])]

\* C1: after every set / clear, get succeeds for exactly the paths of the
\* non-EmptyMarker nodes reachable from the root.
C1_IndexIsExactlyReachable ==
    holder = "live" => GetSucceeds(pathToNodeIndex) = PathsOf(heap, ReachableNodes(heap, root))

\* C2: once addNodes or clearNode has returned, the item stored under the
\* holder's key is the serialization of the whole current root.
C2_FullSnapshotPersisted ==
    (last.op \in {"addNodes", "clearNode"} /\ last.outcome = "ok")
        => localStorage[storageKey(treeId)] = stringify(heap, root)

\* C2 happens: addNodes("", [/a with child /a/b]) has returned.
C2_Witness ==
    /\ last.op = "addNodes" /\ last.outcome = "ok" /\ last.path = ""
    /\ last.nodes = <<Dir(FdA, <<Leaf(FdAB)>>)>>
    /\ ChildValues(heap, root) = last.nodes

\* C3: after clear(p) on an indexed expandable path p, get returns null for
\* every former child or deeper descendant of p, and p has no children.
C3_ClearDiscardsSubtree ==
    [][ (/\ last'.op = "clearNode" /\ last'.outcome = "ok"
         /\ last'.path \in DOMAIN pathToNodeIndex
         /\ heap[pathToNodeIndex[last'.path]].fileData.expandable)
        => LET node == pathToNodeIndex[last'.path] IN
           /\ \A q \in DescendantPaths(heap, node) : get(pathToNodeIndex', q) = Null
           /\ heap'[node].children = <<>> ]_vars

\* C4: set(p, nodes) returns the node at p, whose children are then exactly
\* nodes in order; get returns that very node for every non-EmptyMarker node
\* of nodes and of their descendants, and null for every former descendant
\* of p whose path does not occur in nodes.
C4_SetInstallsNodes ==
    [][ (/\ last'.op = "addNodes" /\ last'.outcome = "ok"
         /\ last'.path \in DOMAIN pathToNodeIndex)
        => LET node == pathToNodeIndex[last'.path]
               fresh == ReachableNodes(heap', node) \ {node}
           IN /\ last'.ret = node
              /\ ChildValues(heap', node) = last'.nodes
              /\ \A id \in fresh :
                    ~isEmptyNode(heap'[id])
                        => get(pathToNodeIndex', heap'[id].fileData.path) = id
              /\ \A q \in DescendantPaths(heap, node) \ PathsOf(heap', fresh) :
                    get(pathToNodeIndex', q) = Null ]_vars

\* C5: a second set(p, nodes') with a structurally equal sequence leaves the
\* root (structurally) and the set of indexed paths as after the first call,
\* and the index holds no stale entry.  Stated for nodes that do not carry
\* the path p itself.
C5_ReExpandIdempotent ==
    [][ (/\ last.op = "addNodes" /\ last.outcome = "ok"
         /\ last'.op = "addNodes" /\ last'.outcome = "ok"
         /\ last'.path = last.path /\ last'.nodes = last.nodes
         /\ last'.path \in DOMAIN pathToNodeIndex
         /\ last'.path \notin
               PathsOf(heap', ReachableNodes(heap', pathToNodeIndex[last'.path])
                                  \ {pathToNodeIndex[last'.path]}))
        => /\ ToValue(heap', root') = ToValue(heap, root)
           /\ DOMAIN pathToNodeIndex' = DOMAIN pathToNodeIndex
           /\ GetSucceeds(pathToNodeIndex') = PathsOf(heap', ReachableNodes(heap', root')) ]_vars

\* C6: a holder built from the persisted item has the indexed paths of the
\* live tree before the reload, with equal file data at every path.
C6_ReloadRestoresIndex ==
    [][ (holder = "live" /\ last'.op = "newHolder")
        => /\ holder' = "live"
           /\ DOMAIN pathToNodeIndex' = DOMAIN pathToNodeIndex
           /\ \A p \in DOMAIN pathToNodeIndex :
                 heap'[pathToNodeIndex'[p]].fileData = heap[pathToNodeIndex[p]].fileData ]_vars

\* C7: with nothing stored under the key, the new holder has the default
\* root {path: "", name: "", type: "directory", expandable: true} without
\* children, get("") returns it, and its serialization is already stored.
C7_FreshInitialization ==
    (last.op = "newHolder" /\ last.stateString = NoItem)
        => /\ last.outcome = "ok" /\ holder = "live"
           /\ heap[root] = [fileData |-> [path |-> "", name |-> "", type |-> "directory",
                                          expandable |-> TRUE],
                            children |-> <<>>]
           /\ get(pathToNodeIndex, "") = root
           /\ localStorage[storageKey(treeId)] = stringify(heap, root)

\* C7 happens: a holder was created while the key held nothing.
C7_Witness ==
    /\ last.op = "newHolder" /\ last.stateString = NoItem
    /\ holder = "live" /\ root # Null

\* The stored item is present but is not a serialized root.
Corrupt(item) ==
    /\ item # NoItem
    /\ parseThrows(item) \/ "fileData" \notin DOMAIN item.json

\* C8: with a corrupt item under the key, creating the holder does not fail,
\* yields the default root and overwrites the item with its serialization.
C8_CorruptStateRecovered ==
    (last.op = "newHolder" /\ Corrupt(last.stateString))
        => /\ last.outcome = "ok" /\ holder = "live"
           /\ ToValue(heap, root) = initStateRootNode
           /\ localStorage[storageKey(treeId)] = JsonText(initStateRootNode)

\* C9: addNodes / clearNode with a path that is not in the index complete
\* without raising and leave tree, index and stored item unchanged.
C9_MissIsNotFatal ==
    [][ (/\ last'.op \in {"addNodes", "clearNode"}
         /\ last'.path \notin DOMAIN pathToNodeIndex)
        => /\ last'.outcome = "ok"
           /\ UNCHANGED <<localStorage, heap, root, pathToNodeIndex>> ]_vars

\* C10: get(path) returns the indexed node when path is in the index and
\* null otherwise, without raising and without changing tree, index or
\* stored item.
C10_GetReturnsNodeOrNull ==
    [][ last'.op = "get"
        => /\ last'.outcome = "ok"
           /\ last'.ret = (IF last'.path \in DOMAIN pathToNodeIndex
                           THEN pathToNodeIndex[last'.path] ELSE Null)
           /\ UNCHANGED <<localStorage, heap, root, pathToNodeIndex>> ]_vars

\* C16: add(parentPath, node) with parentPath indexed and expandable
\* completes, leaves node as the last child of the node at parentPath, get
\* succeeds for the path of node and of each of its non-EmptyMarker
\* descendants, and every other index entry is unchanged.
C16_AddAppendsAndIndexes ==
    [][ (/\ last'.op = "add"
         /\ last'.path \in DOMAIN pathToNodeIndex
         /\ heap[pathToNodeIndex[last'.path]].fileData.expandable)
        => LET parent == pathToNodeIndex[last'.path]
               kids == heap'[parent].children
               added == PathsOf(heap', ReachableNodes(heap', kids[Len(kids)]))
           IN /\ last'.outcome = "ok"
              /\ Len(kids) = Len(heap[parent].children) + 1
              /\ ToValue(heap', kids[Len(kids)]) = last'.nodes[1]
              /\ \A q \in added : get(pathToNodeIndex', q) # Null
              /\ \A q \in (DOMAIN pathToNodeIndex) \ added :
                    pathToNodeIndex'[q] = pathToNodeIndex[q] ]_vars

\* The rank the sort order gives a node: directories, then other expandable
\* nodes, then the rest.
Rank(node) ==
    IF node.fileData.type = "directory" THEN 1
    ELSE IF node.fileData.expandable THEN 2 ELSE 3

\* out is in with its elements moved as the one-to-one map f says.
Rearranged(in, out, f) ==
    /\ Len(out) = Len(in)
    /\ \A i \in DOMAIN out : out[i] = in[f[i]]

\* The values of the objects ids, in order.
ValuesOf(h, ids) == [i \in DOMAIN ids |-> ToValue(h, ids[i])]

\* C13: what a provider passes to onSuccess is a permutation of its input
\* with directories first, then other expandable nodes, then non-expandable
\* nodes, nodes of equal rank keeping their original relative order.
C13_ProviderSortOrder ==
    last.op = "listed"
        => LET out == ValuesOf(heap, last.data) IN
           \E f \in Permutations(DOMAIN last.input) :
              /\ Rearranged(last.input, out, f)
              /\ \A i, j \in DOMAIN out :
                    i < j => /\ Rank(out[i]) <= Rank(out[j])
                             /\ Rank(out[i]) = Rank(out[j]) => f[i] < f[j]

\* C13 happens: [text/plain, directory, zip] is delivered as
\* [directory, zip, text/plain].
C13_Witness ==
    /\ last.op = "listed" /\ last.provider = "service"
    /\ last.raw = <<FdX, FdA, FdC>>
    /\ [i \in DOMAIN last.data |-> heap[last.data[i]].fileData] = <<FdA, FdC, FdX>>

\* C19 as stated: the copies have the length and order of the delivered
\* children; an EmptyMarker is passed on as the same object; every other
\* element is a new node whose fileData is equal field by field to the
\* original's and is an object no other node holds, and whose children
\* sequence is empty.
C19_CopiesHaveEmptyChildren ==
    last.op = "listed"
        => /\ Len(last.copies) = Len(last.children)
           /\ \A i \in DOMAIN last.children :
                 LET child == heap[last.children[i]]
                     copy == heap[last.copies[i]]
                 IN IF isEmptyNode(child) THEN last.copies[i] = last.children[i]
                    ELSE /\ \A j \in DOMAIN last.children : last.copies[i] # last.children[j]
                         /\ copy.fileData = child.fileData
                         /\ \A n \in (DOMAIN heap) \ {last.copies[i]} :
                               fileDataObject[n] # fileDataObject[last.copies[i]]
                         /\ "children" \in DOMAIN copy
                         /\ copy.children = <<>>

\* C19 amended: as above, but the copy has an empty children sequence when
\* its file data is expandable and no children property otherwise.
C19_CopiesWithoutChildren ==
    last.op = "listed"
        => /\ Len(last.copies) = Len(last.children)
           /\ \A i \in DOMAIN last.children :
                 LET child == heap[last.children[i]]
                     copy == heap[last.copies[i]]
                 IN IF isEmptyNode(child) THEN last.copies[i] = last.children[i]
                    ELSE /\ \A j \in DOMAIN last.children : last.copies[i] # last.children[j]
                         /\ \A j \in DOMAIN last.copies :
                               j # i => last.copies[j] # last.copies[i]
                         /\ copy.fileData = child.fileData
                         /\ \A n \in (DOMAIN heap) \ {last.copies[i]} :
                               fileDataObject[n] # fileDataObject[last.copies[i]]
                         /\ IF child.fileData.expandable
                            THEN "children" \in DOMAIN copy /\ copy.children = <<>>
                            ELSE "children" \notin DOMAIN copy

\* C19 happens: a listing with an expandable node that has children of its
\* own and a plain file has been copied.
C19_Witness ==
    /\ last.op = "listed" /\ last.provider = "json"
    /\ heap[root].children = last.copies
    /\ last.data # <<>>
    /\ \E i, j \in DOMAIN last.children :
          /\ heap[last.children[i]].fileData.expandable
          /\ heap[last.children[i]].children # <<>>
          /\ ~heap[last.children[j]].fileData.expandable

\* The store and what it persists.
storeVars == <<localStorage, heap, root, pathToNodeIndex>>

\* The expandable items of the document that show the path p.
ItemsOf(view, p) ==
    {e \in Attached(view) : view.els[e].path = p /\ view.els[e].span = "expandable"}

\* C11: when list succeeds with an empty sequence for p, the store holds
\* exactly one child under p, the EmptyMarker, and no path is added to the
\* index; the collapse that follows completes without error, leaves p
\* without children and the index with the paths it had.
C11_EmptyDirectoryExpansion ==
    [][ /\ (last'.op = "listSuccess" /\ serviceFiles[last'.path] = <<>>)
            => /\ last'.outcome = "ok"
               /\ LET kids == heap'[pathToNodeIndex[last'.path]].children
                  IN Len(kids) = 1 /\ isEmptyNode(heap'[kids[1]])
               /\ DOMAIN pathToNodeIndex' = DOMAIN pathToNodeIndex
        /\ (/\ last'.op = "collapse"
            /\ last'.path \in DOMAIN pathToNodeIndex
            /\ ValuesOf(heap, heap[pathToNodeIndex[last'.path]].children) = <<EmptyMarker>>)
            => /\ last'.outcome = "ok"
               /\ heap'[pathToNodeIndex[last'.path]].children = <<>>
               /\ DOMAIN pathToNodeIndex' = DOMAIN pathToNodeIndex ]_vars

\* C11 happens: /c, expanded to an empty listing, has been collapsed.
C11_Witness ==
    /\ last.op = "collapse" /\ last.path = "/c" /\ last.outcome = "ok"
    /\ heap[pathToNodeIndex["/c"]].children = <<>>

\* C12: a failed list request leaves tree, index and persisted record as
\* they were (the activation changed nothing either), the loader is removed
\* and the node is Collapsed again.
C12_FailedExpandChangesNothing ==
    [][ /\ last'.op = "expand" => UNCHANGED storeVars
        /\ last'.op = "listFail"
            => /\ UNCHANGED storeVars
               /\ dom'.els[last'.li].loaders = 0
               /\ \A e \in ItemsOf(dom', last'.path) : ~hasNestedList(dom'.els, e) ]_vars

\* C14: a failed request invokes the error callback exactly once and the
\* success callback never; the server's message is alerted exactly when the
\* status is 404 or 501, every other failure is logged only.
C14_FailureHandling ==
    last.op = "listFail"
        => /\ last.handled.errorCallback = 1
           /\ last.handled.callback = 0
           /\ IF last.status = 404 \/ last.status = 501
              THEN /\ last.handled.alert = <<"message of the server">>
                   /\ ~last.handled.logged
              ELSE /\ last.handled.alert = <<>>
                   /\ last.handled.logged

\* C14 happens: a request has failed with status 404.
C14_Witness == last.op = "listFail" /\ last.status = 404

\* C17: a list request for p that succeeds when p is no longer reachable
\* from the root raises no error and leaves the root, the set of indexed
\* paths and the persisted record as they were.
C17_LateCompletionIsHarmless ==
    [][ (/\ last'.op = "listSuccess"
         /\ last'.path \notin PathsOf(heap, ReachableNodes(heap, root)))
        => /\ last'.outcome = "ok"
           /\ ToValue(heap', root') = ToValue(heap, root)
           /\ DOMAIN pathToNodeIndex' = DOMAIN pathToNodeIndex
           /\ UNCHANGED localStorage ]_vars

\* C18: while a list request of a node is in flight, activating that node
\* issues no other list request: no two requests of one node are in flight.
C18_NoRetriggerWhileExpanding ==
    \A i, j \in DOMAIN requests :
        i # j => ~(/\ requests[i].path = requests[j].path
                   /\ requests[i].parent = requests[j].parent)

\* C20: a path the user has collapsed has no children in the store and is
\* not shown Expanded until the user activates it again.
C20_CollapsedStaysCollapsed ==
    \A p \in collapsedByUser :
        /\ p \in DOMAIN pathToNodeIndex => heap[pathToNodeIndex[p]].children = <<>>
        /\ \A e \in ItemsOf(dom, p) : ~hasNestedList(dom.els, e)

\* C15: addNodes and clearNode on the store of tree A change neither the
\* persisted record, nor the root, nor the index, nor any indexed node of
\* the store of tree B.
C15_TreesAreIndependent ==
    [][ (last'.op \in {"addNodes", "clearNode"} /\ other.holder = "live")
        => /\ localStorage'[storageKey(otherTreeId)] = localStorage[storageKey(otherTreeId)]
           /\ other'.root = other.root
           /\ ToValue(heap', other'.root) = ToValue(heap, other.root)
           /\ other'.index = other.index
           /\ \A p \in DOMAIN other.index :
                  heap'[other.index[p]] = heap[other.index[p]] ]_vars

\* C15 happens: children were installed in tree A, at a path that tree B
\* indexes too, while the store of tree B was live.
C15_Witness ==
    /\ last.op = "addNodes" /\ last.outcome = "ok" /\ last.nodes # <<>>
    /\ other.holder = "live"
    /\ last.path \in DOMAIN other.index

\* The item of the path p is shown Expanded: it has a rendered children
\* container in the document.
ShownExpanded(view, p) ==
    \E e \in Attached(view) :
        /\ view.els[e].path = p
        /\ view.els[e].span \in {"expandable", "plain"}
        /\ view.els[e].hasNested

\* C24: when no list request is in flight, a node reachable from the
\* store's root is shown Expanded exactly when the store holds a non-empty
\* children sequence for it.
C24_ViewAndStoreAgree ==
    (holder = "live" /\ requests = <<>>)
        => \A n \in ReachableNodes(heap, root) :
               ~isEmptyNode(heap[n])
                   => (ShownExpanded(dom, heap[n].fileData.path)
                        <=> ("children" \in DOMAIN heap[n] /\ heap[n].children # <<>>))

\* The indexed paths whose node has the object id in its subtree: the path
\* of id itself and those of its ancestors.
SelfAndAncestors(h, idx, id) == {q \in DOMAIN idx : id \in ReachableNodes(h, idx[q])}

\* C23: set(p, nodes) and clear(p) leave every indexed path q that is not
\* the path of an old or of a new descendant of p with the same node and
\* the same fileData, and, unless q is p or an ancestor of p, with the same
\* subtree.
C23_SetAndClearAreLocal ==
    [][ (/\ last'.op \in {"addNodes", "clearNode"} /\ last'.outcome = "ok"
         /\ last'.path \in DOMAIN pathToNodeIndex)
        => LET node == pathToNodeIndex[last'.path]
               touched == DescendantPaths(heap, node) \cup DescendantPaths(heap', node)
           IN \A q \in (DOMAIN pathToNodeIndex) \ touched :
                  /\ get(pathToNodeIndex', q) = pathToNodeIndex[q]
                  /\ heap'[pathToNodeIndex[q]].fileData = heap[pathToNodeIndex[q]].fileData
                  /\ q \notin SelfAndAncestors(heap, pathToNodeIndex, node)
                        => ToValue(heap', pathToNodeIndex[q]) = ToValue(heap, pathToNodeIndex[q]) ]_vars

\* C23 happens: /a was cleared or given children while its sibling /c, with
\* children of its own, was indexed.
C23_Witness ==
    /\ last.op \in {"addNodes", "clearNode"} /\ last.outcome = "ok"
    /\ last.path = "/a"
    /\ "/c" \in DOMAIN pathToNodeIndex
    /\ heap[pathToNodeIndex["/c"]].children # <<>>
    /\ pathToNodeIndex["/a"] \notin ReachableNodes(heap, pathToNodeIndex["/c"])

\* C25: after every set and clear made on both trees, the tree of
\* src/unnamed/part_000 and the tree of src/js/fileTree.js have structurally
\* equal roots and get succeeds for the same paths in both.
C25_ImplementationsAgree ==
    root # Null
        => /\ ToValue(heap, root) = ToValue(heap, oldTree.root)
           /\ GetSucceeds(pathToNodeIndex) = GetSucceeds(oldTree.index)

\* Some item of the document is Expanding: it shows a loader.
SomeItemExpanding == \E e \in Attached(dom) : dom.els[e].loaders > 0

\* C21: every node that enters Expanding eventually is Expanded or
\* Collapsed with its loader removed: whenever an item shows a loader,
\* eventually none does.
C21_EveryExpansionResolves == SomeItemExpanding ~> ~SomeItemExpanding

\* C22: no step of the page adds an element to, or removes one from, the
\* children the JsonDataProvider's tree holds for a path, or changes their
\* fileData: list delivers the nodes it delivered right after load.
C22_ProviderTreeIsReadOnly ==
    [][ jsonProvider.root # Null
        => \A p \in DOMAIN jsonProvider.index :
               LET node == jsonProvider.index[p] IN
               "children" \in DOMAIN heap[node]
                   => /\ {heap'[node].children[i] : i \in DOMAIN heap'[node].children}
                         = {heap[node].children[i] : i \in DOMAIN heap[node].children}
                      /\ \A i \in DOMAIN heap[node].children :
                             heap'[heap[node].children[i]] = heap[heap[node].children[i]] ]_vars

====
